---- MODULE Spec2Model ----
(***************************************************************************)
(* Model of the mayavi Threshold filter                                    *)
(* (enthought/mayavi/filters/threshold.py).                                *)
(*                                                                         *)
(* The filter is a traits object.  Its two bounds are dynamic Range traits *)
(* (low='_data_min', high='_data_max'): an assignment outside the current  *)
(* [_data_min, _data_max] raises TraitError and stores nothing, a read     *)
(* returns the stored value clamped to the current limits, and the static  *)
(* handler _<name>_changed runs only when the stored value actually        *)
(* changes and notification is not suppressed (trait_change_notify=False). *)
(* Floats are modelled by small integers; 1e20 by HUGE, a value beyond     *)
(* every data value.                                                       *)
(*                                                                         *)
(* Every action is one external event handled to completion (the code is   *)
(* single threaded and synchronous).  `op` records, for the last event,    *)
(* what was true on entry and the ordered trace of what the handler did:   *)
(* each execution (update()) of an algorithm instance and each             *)
(* "data changed" notification, with the value `outputs` had at that       *)
(* moment.                                                                 *)
(***************************************************************************)
EXTENDS Integers, Sequences, FiniteSets, TLC

\* Data values are 0..MaxVal.
MaxVal == 1

\* The number of events in a run.
MaxEvents == 5

Vals == 0 .. MaxVal

\* Stand-in for 1e20 (the default limits and default bounds).
HUGE == MaxVal + 1

\* The upstream nodes that can be attached as inputs[0].
Sources == {1, 2}

FilterTypes == {"cells", "points"}

\* An absent scalar array (None) and the empty data range ([]).
None == << >>

\* The (min, max) ranges a scalar array can expose.
Ranges == {r \in Vals \X Vals : r[1] <= r[2]}

\* The ranges the cell scalars take in the model.
CellRanges == {<<0, MaxVal>>}

\* The contents of inputs[0].outputs[0] that matter to the filter:
\* point_data.scalars.range and cell_data.scalars.range, None when absent.
DataSets == [ps : Ranges \cup {None}, cs : CellRanges \cup {None}]

\* Placeholder for `data` while no input is attached.
NoData == [ps |-> None, cs |-> None]

\* Bounds of a tvtk threshold object on which threshold_between was never
\* called.
NoBounds == << >>

VARIABLES
    inputs,            \* Filter.inputs: sequence of attached upstream nodes
    data,              \* the dataset inputs[0].outputs[0]
    filter_type,       \* Threshold.filter_type
    lower_threshold,   \* stored value of the lower_threshold Range trait
    upper_threshold,   \* stored value of the upper_threshold Range trait
    auto_reset_lower,  \* Threshold.auto_reset_lower
    auto_reset_upper,  \* Threshold.auto_reset_upper
    data_min,          \* Threshold._data_min
    data_max,          \* Threshold._data_max
    first,             \* Threshold._first
    threshold,         \* _threshold ("cells") and _threshold_points ("points"):
                       \* the input and the bounds of each tvtk object
    outputs,           \* Filter.outputs: whose output object it holds
    op,                \* the last event and the trace of its handling
    steps              \* the number of events so far

vars == <<inputs, data, filter_type, lower_threshold, upper_threshold,
          auto_reset_lower, auto_reset_upper, data_min, data_max, first,
          threshold, outputs, op, steps>>

----------------------------------------------------------------------------
\* The object the handlers work on: the traits of the filter, plus the trace
\* of the handling in progress and whether an exception was raised.

Self ==
    [filter_type      |-> filter_type,
     lower_threshold  |-> lower_threshold,
     upper_threshold  |-> upper_threshold,
     auto_reset_lower |-> auto_reset_lower,
     auto_reset_upper |-> auto_reset_upper,
     data_min         |-> data_min,
     data_max         |-> data_max,
     first            |-> first,
     threshold        |-> threshold,
     outputs          |-> outputs,
     events           |-> << >>,
     fault            |-> FALSE]

Emit(st, e) == [st EXCEPT !.events = Append(@, e)]

\* An exception leaves the handler: what was assigned so far stays.
Raise(st) == [st EXCEPT !.fault = TRUE]

\* self.data_changed = True
data_changed(st) ==
    Emit(st, [ev |-> "data_changed", inst |-> "-", out |-> st.outputs])

\* fil.threshold_between(lo, hi)
threshold_between(st, fil, lo, hi) ==
    [st EXCEPT !.threshold[fil].bounds = <<lo, hi>>]

\* fil.update(): one execution of the algorithm instance
update(st, fil) ==
    Emit(st, [ev |-> "update", inst |-> fil, out |-> st.outputs])

\* Reading a dynamic Range trait: the stored value clamped to the limits.
Clamp(value, low, high) ==
    IF value < low THEN low ELSE IF value > high THEN high ELSE value

get_lower_threshold(st) == Clamp(st.lower_threshold, st.data_min, st.data_max)

get_upper_threshold(st) == Clamp(st.upper_threshold, st.data_min, st.data_max)

\* A variant of _get_threshold_filter that always returns self._threshold.
_get_threshold_filter_always_cells(st) == "cells"

_get_threshold_filter(st) == st.filter_type

\* A variant of _lower_threshold_changed that forgets fil.update().
_lower_threshold_changed_no_update(st, new_value) ==
    LET fil == _get_threshold_filter(st)
        s1  == threshold_between(st, fil, new_value, get_upper_threshold(st))
    IN  data_changed(s1)

_lower_threshold_changed(st, new_value) ==
    LET fil == _get_threshold_filter(st)
        s1  == threshold_between(st, fil, new_value, get_upper_threshold(st))
        s2  == update(s1, fil)
    IN  data_changed(s2)

_upper_threshold_changed(st, new_value) ==
    LET fil == _get_threshold_filter(st)
        s1  == threshold_between(st, fil, get_lower_threshold(st), new_value)
        s2  == update(s1, fil)
    IN  data_changed(s2)

\* A variant of the assignment to lower_threshold that ignores
\* trait_change_notify.
set_lower_threshold_always_notifies(st, value, notify) ==
    IF st.fault THEN st
    ELSE IF ~(st.data_min <= value /\ value <= st.data_max) THEN Raise(st)
    ELSE LET s1 == [st EXCEPT !.lower_threshold = value]
         IN  IF value # st.lower_threshold
             THEN _lower_threshold_changed(s1, value)
             ELSE s1

\* Assignment to the lower_threshold Range trait: self.lower_threshold = v,
\* or self.set(lower_threshold = v, trait_change_notify = notify).
set_lower_threshold(st, value, notify) ==
    IF st.fault THEN st
    ELSE IF ~(st.data_min <= value /\ value <= st.data_max) THEN Raise(st)
    ELSE LET s1 == [st EXCEPT !.lower_threshold = value]
         IN  IF value # st.lower_threshold /\ notify
             THEN _lower_threshold_changed(s1, value)
             ELSE s1

set_upper_threshold(st, value, notify) ==
    IF st.fault THEN st
    ELSE IF ~(st.data_min <= value /\ value <= st.data_max) THEN Raise(st)
    ELSE LET s1 == [st EXCEPT !.upper_threshold = value]
         IN  IF value # st.upper_threshold /\ notify
             THEN _upper_threshold_changed(s1, value)
             ELSE s1

\* A variant of _get_data_range that looks at the cell scalars first.
DataRange_cells_first(d) ==
    LET ps == d.ps
        cs == d.cs
    IN  IF cs # None THEN cs ELSE IF ps # None THEN ps ELSE << >>

\* The range of the scalars of dataset d: point scalars first.
DataRange(d) ==
    LET ps == d.ps
        cs == d.cs
    IN  IF ps # None THEN ps ELSE IF cs # None THEN cs ELSE << >>

_get_data_range == DataRange(data)

\* A variant of _update_ranges that never clears _first.
_update_ranges_keeps_first(st) ==
    LET dr == _get_data_range
    IN  IF Len(dr) > 0
        THEN LET s1 == [st EXCEPT !.data_min = dr[1], !.data_max = dr[2]]
                 s2 == set_lower_threshold(s1, dr[1], FALSE)
             IN  set_upper_threshold(s2, dr[2], TRUE)
        ELSE st

_update_ranges(st) ==
    LET dr == _get_data_range
    IN  IF Len(dr) > 0
        THEN IF st.first
             THEN LET s1 == [st EXCEPT !.data_min = dr[1], !.data_max = dr[2]]
                      s2 == set_lower_threshold(s1, dr[1], FALSE)
                      s3 == set_upper_threshold(s2, dr[2], TRUE)
                  IN  IF s3.fault THEN s3 ELSE [s3 EXCEPT !.first = FALSE]
             ELSE LET s1 == IF st.auto_reset_lower
                            THEN set_lower_threshold(
                                     [st EXCEPT !.data_min = dr[1]], dr[1],
                                     ~st.auto_reset_upper)
                            ELSE st
                  IN  IF ~s1.fault /\ s1.auto_reset_upper
                      THEN set_upper_threshold(
                               [s1 EXCEPT !.data_max = dr[2]], dr[2], TRUE)
                      ELSE s1
        ELSE st

\* Filter._set_outputs: install the new outputs, then tell downstream.
_set_outputs(st, new_outputs) ==
    data_changed([st EXCEPT !.outputs = new_outputs])

update_pipeline(st) ==
    IF Len(inputs) = 0 THEN st
    ELSE LET fil == _get_threshold_filter(st)
             s1  == [st EXCEPT !.threshold[fil].input = inputs[1]]
             s2  == _update_ranges(s1)
         IN  IF s2.fault THEN s2
             ELSE _set_outputs(s2, <<_get_threshold_filter(s2)>>)

\* A variant of update_data without the guard on the number of inputs.
update_data_no_guard(st) ==
    LET s1 == _update_ranges(st)
    IN  IF s1.fault THEN s1 ELSE data_changed(s1)

update_data(st) ==
    IF Len(inputs) = 0 THEN st
    ELSE LET s1 == _update_ranges(st)
         IN  IF s1.fault THEN s1 ELSE data_changed(s1)

_auto_reset_lower_changed(st, value) ==
    IF Len(inputs) = 0 THEN st
    ELSE IF value
         THEN LET dr == _get_data_range
              IN  IF Len(dr) = 0 THEN Raise(st)
                  ELSE set_lower_threshold([st EXCEPT !.data_min = dr[1]],
                                           dr[1], TRUE)
         ELSE st

_auto_reset_upper_changed(st, value) ==
    IF Len(inputs) = 0 THEN st
    ELSE IF value
         THEN LET dr == _get_data_range
              IN  IF Len(dr) = 0 THEN Raise(st)
                  ELSE set_upper_threshold([st EXCEPT !.data_max = dr[2]],
                                           dr[2], TRUE)
         ELSE st

\* Assignment to the Bool traits: the handler runs when the value changes.
set_auto_reset_lower(st, value) ==
    IF value = st.auto_reset_lower THEN st
    ELSE _auto_reset_lower_changed([st EXCEPT !.auto_reset_lower = value],
                                   value)

set_auto_reset_upper(st, value) ==
    IF value = st.auto_reset_upper THEN st
    ELSE _auto_reset_upper_changed([st EXCEPT !.auto_reset_upper = value],
                                   value)

\* A variant of _threshold_filter_changed that does not rebind the input of
\* the new instance.
_threshold_filter_changed_no_rebind(st, old, new) ==
    IF Len(inputs) = 0 THEN st
    ELSE LET fil == new
             s2  == threshold_between(st, fil, get_lower_threshold(st),
                                      get_upper_threshold(st))
             s3  == update(s2, fil)
         IN  _set_outputs(s3, <<fil>>)

_threshold_filter_changed(st, old, new) ==
    IF Len(inputs) = 0 THEN st
    ELSE LET fil == new
             s1  == [st EXCEPT !.threshold[fil].input = inputs[1]]
             s2  == threshold_between(s1, fil, get_lower_threshold(s1),
                                      get_upper_threshold(s1))
             s3  == update(s2, fil)
         IN  _set_outputs(s3, <<fil>>)

_filter_type_changed(st, value) ==
    LET old == IF value = "cells" THEN "points" ELSE "cells"
        new == IF value = "cells" THEN "cells" ELSE "points"
    IN  _threshold_filter_changed(st, old, new)

\* Assignment to the Enum trait: the handler runs when the value changes.
set_filter_type(st, value) ==
    IF value = st.filter_type THEN st
    ELSE _filter_type_changed([st EXCEPT !.filter_type = value], value)

\* The state dictionary of the base class: every trait of the object.
super__get_pure_state__(st) ==
    [filter_type      |-> st.filter_type,
     lower_threshold  |-> st.lower_threshold,
     upper_threshold  |-> st.upper_threshold,
     auto_reset_lower |-> st.auto_reset_lower,
     auto_reset_upper |-> st.auto_reset_upper,
     _first           |-> st.first,
     _data_min        |-> st.data_min,
     _data_max        |-> st.data_max]

\* d.pop(name, None)
pop(d, name) == [k \in DOMAIN d \ {name} |-> d[k]]

\* A variant of __get_pure_state__ whose loop misses '_first'.
__get_pure_state__keeps_first(st) ==
    LET d  == super__get_pure_state__(st)
        d1 == pop(d, "_data_min")
    IN  pop(d1, "_data_max")

__get_pure_state__(st) ==
    LET d  == super__get_pure_state__(st)
        d1 == pop(d, "_first")
        d2 == pop(d1, "_data_min")
    IN  pop(d2, "_data_max")

----------------------------------------------------------------------------
\* The state after construction: detached, default traits.

Init ==
    /\ inputs = << >>
    /\ data = NoData
    /\ filter_type = "cells"
    /\ lower_threshold = -HUGE
    /\ upper_threshold = HUGE
    /\ auto_reset_lower = TRUE
    /\ auto_reset_upper = TRUE
    /\ data_min = -HUGE
    /\ data_max = HUGE
    /\ first = TRUE
    /\ threshold = [t \in FilterTypes |-> [input |-> 0, bounds |-> NoBounds]]
    /\ outputs = << >>
    /\ steps = 0
    /\ op = [name |-> "init", arg |-> << >>, first |-> TRUE, fresh |-> FALSE,
             events |-> << >>, fault |-> FALSE]

\* The filter after the handler returned st.
Commit(st) ==
    /\ filter_type' = st.filter_type
    /\ lower_threshold' = st.lower_threshold
    /\ upper_threshold' = st.upper_threshold
    /\ auto_reset_lower' = st.auto_reset_lower
    /\ auto_reset_upper' = st.auto_reset_upper
    /\ data_min' = st.data_min
    /\ data_max' = st.data_max
    /\ first' = st.first
    /\ threshold' = st.threshold
    /\ outputs' = st.outputs

\* The record of an event: what held on entry, what the handler did.
Record(name, arg, st) ==
    [name |-> name, arg |-> arg, first |-> first, fresh |-> (op.name = "upstream_data" /\ op.fresh),
     events |-> st.events, fault |-> st.fault]

\* The handling of one event of the filter.
Handle(name, arg, st) ==
    /\ Commit(st)
    /\ op' = Record(name, arg, st)
    /\ UNCHANGED <<inputs, data>>

UpdatePipeline == Handle("update_pipeline", << >>, update_pipeline(Self))

UpdateData == Handle("update_data", << >>, update_data(Self))

\* f.lower_threshold = v and f.upper_threshold = v, from the UI or a script.
SetLowerThreshold ==
    \E v \in Vals :
        Handle("set_lower_threshold", <<v>>, set_lower_threshold(Self, v, TRUE))

SetUpperThreshold ==
    \E v \in Vals :
        Handle("set_upper_threshold", <<v>>, set_upper_threshold(Self, v, TRUE))

\* f.auto_reset_lower = b and f.auto_reset_upper = b.
SetAutoResetLower ==
    \E b \in BOOLEAN :
        Handle("set_auto_reset_lower", <<b>>, set_auto_reset_lower(Self, b))

SetAutoResetUpper ==
    \E b \in BOOLEAN :
        Handle("set_auto_reset_upper", <<b>>, set_auto_reset_upper(Self, b))

\* f.filter_type = t.
SetFilterType ==
    \E t \in FilterTypes :
        Handle("set_filter_type", <<t>>, set_filter_type(Self, t))

\* The filter is saved: its persisted state is taken.
Save == Handle("save", __get_pure_state__(Self), Self)

\* The environment of the filter: the pipeline attaches an upstream node,
\* removes it, or the upstream dataset changes.
External(name, arg, fresh) ==
    /\ op' = [name |-> name, arg |-> arg, first |-> first, fresh |-> fresh,
              events |-> << >>, fault |-> FALSE]
    /\ UNCHANGED <<filter_type, lower_threshold, upper_threshold,
                   auto_reset_lower, auto_reset_upper, data_min, data_max,
                   first, threshold, outputs>>

Attach ==
    /\ Len(inputs) = 0
    /\ \E s \in Sources, d \in DataSets :
        /\ inputs' = <<s>>
        /\ data' = d
        /\ External("attach", << >>, FALSE)

Detach ==
    /\ Len(inputs) > 0
    /\ inputs' = << >>
    /\ data' = NoData
    /\ External("detach", << >>, FALSE)

UpstreamData ==
    /\ Len(inputs) > 0
    /\ \E d \in DataSets :
        /\ d # data
        /\ data' = d
        /\ inputs' = inputs
        /\ External("upstream_data", << >>,
                    DataRange(d) # _get_data_range)

Event ==
    \/ UpdatePipeline
    \/ UpdateData
    \/ SetLowerThreshold
    \/ SetUpperThreshold
    \/ SetAutoResetLower
    \/ SetAutoResetUpper
    \/ SetFilterType
    \/ Save
    \/ Attach
    \/ Detach
    \/ UpstreamData

\* Runs of at most MaxEvents events.
Next ==
    /\ steps < MaxEvents
    /\ steps' = steps + 1
    /\ Event

Spec == Init /\ [][Next]_vars

----------------------------------------------------------------------------
\* What a client of the filter observes.

\* The values read from the two Range traits.
LowerThreshold == get_lower_threshold(Self)

UpperThreshold == get_upper_threshold(Self)

Attached == Len(inputs) > 0

\* The number of executions of instance fil in a trace.
Executions(events, fil) ==
    Cardinality({i \in 1 .. Len(events) :
                    events[i].ev = "update" /\ events[i].inst = fil})

\* The number of executions of either instance in a trace.
AllExecutions(events) ==
    Cardinality({i \in 1 .. Len(events) : events[i].ev = "update"})

\* The positions of the "data changed" notifications in a trace.
Notifications(events) ==
    {i \in 1 .. Len(events) : events[i].ev = "data_changed"}

IsUpdate(o) == o.name \in {"update_pipeline", "update_data"}

----------------------------------------------------------------------------
\* C1: the first update_pipeline or update_data call made with an input
\* attached and a non-empty range [lo, hi] while first_update is true ends
\* with data_min = lo, data_max = hi, lower_threshold = lo,
\* upper_threshold = hi, and the active instance executed exactly once in
\* that call, whatever the auto-reset flags.
C1_FirstUpdateInitialises ==
    (IsUpdate(op) /\ Attached /\ op.first /\ Len(_get_data_range) > 0)
    => /\ data_min = _get_data_range[1]
       /\ data_max = _get_data_range[2]
       /\ LowerThreshold = _get_data_range[1]
       /\ UpperThreshold = _get_data_range[2]
       /\ Executions(op.events, filter_type) = 1

\* C2: for an initialized filter with both auto-reset flags on, an upstream
\* range change to a non-empty [lo, hi] followed by update_data causes
\* exactly one execution of the active instance and leaves
\* lower_threshold = lo and upper_threshold = hi.
C2_BothAutoResetOneExecution ==
    (op.name = "update_data" /\ op.fresh /\ Attached /\ ~op.first
        /\ auto_reset_lower /\ auto_reset_upper /\ Len(_get_data_range) > 0)
    => /\ Executions(op.events, filter_type) = 1
       /\ LowerThreshold = _get_data_range[1]
       /\ UpperThreshold = _get_data_range[2]

\* C3: for an initialized filter with auto_reset_lower on and
\* auto_reset_upper off, an upstream range change to a non-empty [lo, hi]
\* followed by update_data leaves lower_threshold = lo, leaves
\* upper_threshold unchanged and executes the active instance exactly once.
C3_LowerOnlyAutoReset ==
    [][(op'.name = "update_data" /\ op'.fresh /\ Attached /\ ~first
          /\ auto_reset_lower /\ ~auto_reset_upper
          /\ Len(_get_data_range) > 0)
       => /\ LowerThreshold' = _get_data_range[1]
          /\ UpperThreshold' = UpperThreshold
          /\ Executions(op'.events, filter_type) = 1]_vars

\* C4: in every operation of the filter, each "data changed" notification
\* is sent when outputs already have the value the operation leaves them
\* with: no notification precedes the update of outputs.
C4_NotifyAfterOutputs ==
    \A i \in Notifications(op.events) : op.events[i].out = outputs

\* C5: switching filter_type while an input is attached binds the newly
\* active instance to inputs[0].outputs[0], applies the current pair
\* (lower_threshold, upper_threshold) to it, executes it once and makes its
\* result the only output; switching while detached changes neither outputs
\* nor either instance's input or bounds.
C5_FilterTypeSwitch ==
    [][\A t \in FilterTypes :
         (op'.name = "set_filter_type" /\ op'.arg = <<t>> /\ t # filter_type)
         => IF Attached
            THEN /\ filter_type' = t
                 /\ threshold'[t].input = inputs[1]
                 /\ threshold'[t].bounds = <<LowerThreshold, UpperThreshold>>
                 /\ Executions(op'.events, t) = 1
                 /\ AllExecutions(op'.events) = 1
                 /\ outputs' = <<t>>
            ELSE /\ filter_type' = t
                 /\ outputs' = outputs
                 /\ threshold' = threshold]_vars

\* A switch to the point instance was made with an input attached, after
\* the cell instance had produced the outputs.
C5_Witness ==
    /\ op.name = "set_filter_type"
    /\ Attached
    /\ filter_type = "points"
    /\ outputs = <<"points">>
    /\ threshold["points"].input = inputs[1]
    /\ threshold["cells"].input # 0
    /\ AllExecutions(op.events) = 1

\* C6: with zero inputs update_pipeline and update_data are no-ops: no
\* threshold, cached endpoint or first_update changes, no instance is
\* touched or executed, nothing is notified, and outputs stay as they were
\* before detachment.
C6_DetachedUpdatesAreNoOps ==
    [][(IsUpdate(op') /\ ~Attached)
       => /\ UNCHANGED <<lower_threshold, upper_threshold, data_min,
                         data_max, first, threshold, outputs>>
          /\ op'.events = << >>
          /\ ~op'.fault]_vars

\* An update arrived after detachment, with the outputs of the earlier
\* attachment still in place.
C6_Witness ==
    /\ IsUpdate(op)
    /\ ~Attached
    /\ outputs # << >>
    /\ ~first

\* The event op is a toggle of the named auto-reset flag to enabled.
TogglesOn(o, name, flag) == o.name = name /\ o.arg = <<TRUE>> /\ ~flag

\* C7: every operation that recomputes the range while an input is attached
\* whose dataset has neither point nor cell scalars (update_pipeline,
\* update_data, toggling an auto-reset flag to enabled) completes without a
\* fault and leaves both thresholds, data_min, data_max and first_update
\* unchanged.
C7_EmptyRangeIsBenign ==
    [][(/\ Attached
        /\ Len(_get_data_range) = 0
        /\ \/ IsUpdate(op')
           \/ TogglesOn(op', "set_auto_reset_lower", auto_reset_lower)
           \/ TogglesOn(op', "set_auto_reset_upper", auto_reset_upper))
       => /\ ~op'.fault
          /\ UNCHANGED <<lower_threshold, upper_threshold, data_min,
                         data_max, first>>]_vars

\* The trace is one execution of instance fil followed by one notification.
ExecutedThenNotified(events, fil) ==
    /\ Len(events) = 2
    /\ events[1].ev = "update"
    /\ events[1].inst = fil
    /\ events[2].ev = "data_changed"

\* C8 (as stated): set_lower_threshold(v) applies (v, upper_threshold) and
\* set_upper_threshold(v) applies (lower_threshold, v) to the active
\* instance, executes it exactly once, sets outputs to its result and then
\* emits "data changed", for every v (no clamping or check against
\* data_min/data_max).
C8_SetterAlwaysApplies ==
    [][\A v \in Vals :
         /\ (op'.name = "set_lower_threshold" /\ op'.arg = <<v>>)
            => /\ threshold'[filter_type].bounds = <<v, UpperThreshold>>
               /\ ExecutedThenNotified(op'.events, filter_type)
               /\ outputs' = <<filter_type>>
         /\ (op'.name = "set_upper_threshold" /\ op'.arg = <<v>>)
            => /\ threshold'[filter_type].bounds = <<LowerThreshold, v>>
               /\ ExecutedThenNotified(op'.events, filter_type)
               /\ outputs' = <<filter_type>>]_vars

\* v is accepted by the Range trait and differs from its stored value.
Accepted(v, stored) == data_min <= v /\ v <= data_max /\ v # stored

\* The setter had no effect; it raised iff v is outside the limits.
SetterNoEffect(v) ==
    /\ UNCHANGED <<lower_threshold, upper_threshold, data_min, data_max,
                   first, threshold, outputs>>
    /\ op'.events = << >>
    /\ op'.fault = ~(data_min <= v /\ v <= data_max)

\* C8 (amended): a setter called with v inside [data_min, data_max] and
\* different from the stored bound stores v unclamped, applies the pair
\* (v, upper_threshold), resp. (lower_threshold, v), to the active instance,
\* executes that instance exactly once and then emits "data changed",
\* leaving outputs as they were; a v outside [data_min, data_max] is
\* rejected with an error, and a rejected or unchanged v changes nothing,
\* executes nothing and notifies nothing.
C8_SetterAmended ==
    [][\A v \in Vals :
         /\ (op'.name = "set_lower_threshold" /\ op'.arg = <<v>>)
            => IF Accepted(v, lower_threshold)
               THEN /\ lower_threshold' = v
                    /\ LowerThreshold' = v
                    /\ threshold'[filter_type].bounds = <<v, UpperThreshold>>
                    /\ threshold'[filter_type].input
                           = threshold[filter_type].input
                    /\ ExecutedThenNotified(op'.events, filter_type)
                    /\ ~op'.fault
                    /\ UNCHANGED <<upper_threshold, data_min, data_max,
                                   first, outputs>>
               ELSE SetterNoEffect(v)
         /\ (op'.name = "set_upper_threshold" /\ op'.arg = <<v>>)
            => IF Accepted(v, upper_threshold)
               THEN /\ upper_threshold' = v
                    /\ UpperThreshold' = v
                    /\ threshold'[filter_type].bounds = <<LowerThreshold, v>>
                    /\ threshold'[filter_type].input
                           = threshold[filter_type].input
                    /\ ExecutedThenNotified(op'.events, filter_type)
                    /\ ~op'.fault
                    /\ UNCHANGED <<lower_threshold, data_min, data_max,
                                   first, outputs>>
               ELSE SetterNoEffect(v)]_vars

\* On an initialized, attached filter a setter was given a new value inside
\* the limits and executed the active instance with it.
C8_Witness ==
    /\ op.name = "set_lower_threshold"
    /\ Attached
    /\ ~first
    /\ ~op.fault
    /\ ExecutedThenNotified(op.events, filter_type)
    /\ threshold[filter_type].bounds = <<op.arg[1], UpperThreshold>>
    /\ op.arg[1] # data_min

\* The lower (k = 1) or upper (k = 2) bound applied to the active instance.
AppliedBound(k) ==
    IF threshold[filter_type].bounds = NoBounds THEN NoBounds
    ELSE threshold[filter_type].bounds[k]

\* C9: toggling auto_reset_lower (resp. auto_reset_upper) to enabled while
\* an input with non-empty range [lo, hi] is attached sets data_min = lo and
\* lower_threshold = lo (resp. data_max = hi and upper_threshold = hi),
\* applies the bound to the active instance and leaves the other side's
\* threshold and cached endpoint unchanged; toggling to disabled, or while
\* detached, changes no threshold and no cached endpoint.
C9_ToggleAutoReset ==
    [][\A b \in BOOLEAN :
         /\ (op'.name = "set_auto_reset_lower" /\ op'.arg = <<b>>
                /\ b # auto_reset_lower)
            => IF b /\ Attached
               THEN Len(_get_data_range) > 0
                    => /\ data_min' = _get_data_range[1]
                       /\ LowerThreshold' = _get_data_range[1]
                       /\ AppliedBound(1)' = _get_data_range[1]
                       /\ UpperThreshold' = UpperThreshold
                       /\ data_max' = data_max
               ELSE UNCHANGED <<lower_threshold, upper_threshold,
                                data_min, data_max>>
         /\ (op'.name = "set_auto_reset_upper" /\ op'.arg = <<b>>
                /\ b # auto_reset_upper)
            => IF b /\ Attached
               THEN Len(_get_data_range) > 0
                    => /\ data_max' = _get_data_range[2]
                       /\ UpperThreshold' = _get_data_range[2]
                       /\ AppliedBound(2)' = _get_data_range[2]
                       /\ LowerThreshold' = LowerThreshold
                       /\ data_min' = data_min
               ELSE UNCHANGED <<lower_threshold, upper_threshold,
                                data_min, data_max>>]_vars

\* C10: update_data with an input attached always finishes by emitting
\* "data changed" after the range recompute, also when the range is empty
\* or no bound changed; it rebinds no instance input and does not replace
\* outputs.
C10_UpdateDataNotifiesLast ==
    [][(op'.name = "update_data" /\ Attached)
       => /\ Len(op'.events) > 0
          /\ op'.events[Len(op'.events)].ev = "data_changed"
          /\ outputs' = outputs
          /\ \A t \in FilterTypes :
                threshold'[t].input = threshold[t].input]_vars

\* The traits derived from the input data, and the traits persisted.
DerivedTraits == {"_first", "_data_min", "_data_max"}

PersistedTraits ==
    {"filter_type", "lower_threshold", "upper_threshold",
     "auto_reset_lower", "auto_reset_upper"}

\* C11: the persisted state of the filter, taken in any reachable state,
\* never contains data_min, data_max or first_update, and retains
\* filter_type, lower_threshold, upper_threshold, auto_reset_lower and
\* auto_reset_upper with their current values.
C11_PersistedState ==
    op.name = "save"
    => /\ DOMAIN op.arg \cap DerivedTraits = {}
       /\ PersistedTraits \subseteq DOMAIN op.arg
       /\ op.arg["filter_type"] = filter_type
       /\ op.arg["lower_threshold"] = lower_threshold
       /\ op.arg["upper_threshold"] = upper_threshold
       /\ op.arg["auto_reset_lower"] = auto_reset_lower
       /\ op.arg["auto_reset_upper"] = auto_reset_upper

\* An initialized filter, whose derived traits hold values computed from
\* the input, was saved.
C11_Witness ==
    /\ op.name = "save"
    /\ ~first
    /\ data_min # -HUGE
    /\ data_max # HUGE
    /\ ~auto_reset_lower

\* The events C12 speaks of, on top of the attachment of an input.
RangeEvent ==
    \/ UpdatePipeline
    \/ UpdateData
    \/ SetAutoResetLower
    \/ SetAutoResetUpper
    \/ UpstreamData
    \/ Attach
    \/ Detach

NextRange ==
    /\ steps < MaxEvents
    /\ steps' = steps + 1
    /\ RangeEvent

\* The filter driven only by updates, upstream data changes and auto-reset
\* toggles.
SpecRange == Init /\ [][NextRange]_vars

\* C12: in every state reached from the initial detached state through
\* update_pipeline, update_data, upstream range changes and auto-reset
\* toggles, both thresholds lie within the cached range:
\* data_min <= lower_threshold <= data_max and
\* data_min <= upper_threshold <= data_max.
C12_ThresholdsWithinRange ==
    /\ data_min <= LowerThreshold
    /\ LowerThreshold <= data_max
    /\ data_min <= UpperThreshold
    /\ UpperThreshold <= data_max

\* The event op is an update made with an input attached whose range is
\* not empty.
SuccessfulUpdate(o) ==
    IsUpdate(o) /\ Attached /\ Len(_get_data_range) > 0

\* C13: first_update is true initially and stays true across every
\* operation (updates while detached or with an empty range included) until
\* the first update_pipeline or update_data call made with an input
\* attached and a non-empty range; that call clears it, and once cleared it
\* never becomes true again, also after a detach and the attachment of
\* another input.
C13_FirstUpdateClearedOnce ==
    /\ steps = 0 => first
    /\ [][/\ (first /\ ~SuccessfulUpdate(op')) => first'
          /\ (first /\ SuccessfulUpdate(op')) => ~first'
          /\ ~first => ~first']_vars

\* After its initialization on one input the filter was detached, attached
\* to another input and updated there.
C13_Witness ==
    /\ ~first
    /\ IsUpdate(op)
    /\ ~op.first
    /\ Attached
    /\ Len(_get_data_range) > 0
    /\ \E t \in FilterTypes :
          threshold[t].input # 0 /\ threshold[t].input # inputs[1]

\* C14: for an initialized filter an update_pipeline or update_data call
\* leaves unchanged the threshold and the cached endpoint of every side
\* whose auto-reset flag is off; with both flags off the range recompute
\* changes no bound and executes nothing.
C14_DisabledSideUntouched ==
    [][(IsUpdate(op') /\ Attached /\ ~first)
       => /\ ~auto_reset_lower
             => (LowerThreshold' = LowerThreshold /\ data_min' = data_min)
          /\ ~auto_reset_upper
             => (UpperThreshold' = UpperThreshold /\ data_max' = data_max)
          /\ (~auto_reset_lower /\ ~auto_reset_upper)
             => AllExecutions(op'.events) = 0]_vars

\* The range C15 expects for the attached dataset.
ExpectedRange ==
    CASE data.ps # None -> data.ps
      [] data.ps = None /\ data.cs # None -> data.cs
      [] OTHER -> << >>

\* C15: every range recompute uses the point-scalar range of
\* inputs[0].outputs[0] whenever point scalars exist (also when cell scalars
\* exist), otherwise the cell-scalar range when cell scalars exist,
\* otherwise the empty range.
C15_PointScalarsFirst ==
    [][/\ (IsUpdate(op') /\ Attached /\ first)
          => IF Len(ExpectedRange) > 0
             THEN <<data_min', data_max'>> = ExpectedRange
             ELSE UNCHANGED <<data_min, data_max, first>>
       /\ (IsUpdate(op') /\ Attached /\ ~first /\ auto_reset_lower)
          => IF Len(ExpectedRange) > 0
             THEN data_min' = ExpectedRange[1]
             ELSE UNCHANGED <<data_min, data_max>>
       /\ (IsUpdate(op') /\ Attached /\ ~first /\ ~auto_reset_lower
              /\ auto_reset_upper)
          => IF Len(ExpectedRange) > 0
             THEN data_max' = ExpectedRange[2]
             ELSE UNCHANGED <<data_min, data_max>>
       /\ (TogglesOn(op', "set_auto_reset_lower", auto_reset_lower)
              /\ Attached /\ Len(ExpectedRange) > 0)
          => data_min' = ExpectedRange[1]
       /\ (TogglesOn(op', "set_auto_reset_upper", auto_reset_upper)
              /\ Attached /\ Len(ExpectedRange) > 0)
          => data_max' = ExpectedRange[2]]_vars

\* The first update was made on a dataset with both point and cell scalars
\* of different ranges, and the point range was taken.
C15_Witness ==
    /\ IsUpdate(op)
    /\ op.first
    /\ Attached
    /\ data.ps # None
    /\ data.cs # None
    /\ data.ps # data.cs
    /\ <<data_min, data_max>> = data.ps

\* The instance that filter type t does not select.
Inactive(t) == IF t = "cells" THEN "points" ELSE "cells"

\* C16: in every state exactly one instance is active, the one matching
\* filter_type; every operation rebinds, configures and executes only the
\* instance that is active when it ends and leaves the inactive instance's
\* input and applied bounds unchanged.
C16_OnlyActiveInstanceTouched ==
    /\ [](_get_threshold_filter(Self) = filter_type)
    /\ [][/\ \A i \in 1 .. Len(op'.events) :
                op'.events[i].ev = "update"
                => op'.events[i].inst = filter_type'
          /\ threshold'[Inactive(filter_type')]
                = threshold[Inactive(filter_type')]]_vars

\* With the point instance active a bound setter configured and executed
\* it, while the cell instance kept the other bounds it was given earlier.
C16_Witness ==
    /\ filter_type = "points"
    /\ op.name \in {"set_lower_threshold", "set_upper_threshold"}
    /\ Executions(op.events, "points") = 1
    /\ threshold["cells"].bounds # NoBounds
    /\ threshold["points"].bounds # NoBounds
    /\ threshold["cells"].bounds # threshold["points"].bounds

\* C17: after every update_pipeline call made with at least one input the
\* active instance's input is inputs[0].outputs[0] and outputs is the
\* one-element sequence of the active instance's result; and outputs stays
\* empty as long as update_pipeline has not run with an input present.
C17_OutputsAfterUpdatePipeline ==
    [][/\ (op'.name = "update_pipeline" /\ Attached)
          => /\ threshold'[filter_type].input = inputs[1]
             /\ outputs' = <<filter_type>>
       /\ (outputs = << >> /\ ~(op'.name = "update_pipeline" /\ Attached))
          => outputs' = << >>]_vars

\* C18: whenever the filter is attached and initialized, after any
\* completed operation the bound pair last applied to the active instance
\* equals the current (lower_threshold, upper_threshold).
C18_AppliedBoundsCurrent ==
    (Attached /\ ~first)
    => threshold[filter_type].bounds = <<LowerThreshold, UpperThreshold>>

\* C19: no single event (update_pipeline, update_data, bound setter,
\* auto-reset toggle, filter-type switch) executes an algorithm instance
\* more than once, and its handling ends after a bounded trace: the
\* notifications raised re-enter neither the bound setters nor the range
\* recompute.
C19_AtMostOneExecution ==
    /\ AllExecutions(op.events) <= 1
    /\ Cardinality(Notifications(op.events)) <= 2
    /\ Len(op.events) <= 3

\* One update_data moved both bounds of an initialized filter and executed
\* the active instance once.
C19_Witness ==
    /\ op.name = "update_data"
    /\ op.fresh
    /\ ~op.first
    /\ auto_reset_lower
    /\ auto_reset_upper
    /\ AllExecutions(op.events) = 1
    /\ threshold[filter_type].bounds = _get_data_range
    /\ lower_threshold = upper_threshold
====
